---- MODULE Spec2Model ----
(***************************************************************************)
(* Model of src/main.py: the InvertedPendulum application.                 *)
(*                                                                         *)
(* Numbers.  The program computes in Python floats.  Here every float      *)
(* field (theta, omega, integral_error, cart_x, cart_v, force) is a        *)
(* fixed-point number: the integer v stands for the real v / SCALE.        *)
(* Every product or quotient is rounded to the nearest unit, as a float    *)
(* operation rounds to the nearest representable value.  Configuration     *)
(* numbers that are exact ratios (dt = 1/60, Ki = 1/10, damping = 1/10,    *)
(* g = 981/100) are kept as ratios, integer-valued ones (m, l, Kp, Kd,     *)
(* the limits) as integers of their own unit.  All intermediate values     *)
(* stay below 2^31.                                                        *)
(*                                                                         *)
(* pyxel.run calls update and draw on every frame.  draw only reads the    *)
(* fields, so a frame is the one action update.                            *)
(***************************************************************************)
EXTENDS Integers, Sequences, FiniteSets, TLC

VARIABLES
    theta,           \* self.theta          (rad * SCALE)
    omega,           \* self.omega          (rad/s * SCALE)
    cart_x,          \* self.cart_x         (px * SCALE)
    cart_v,          \* self.cart_v         (px/tick * SCALE)
    integral_error,  \* self.integral_error (rad*s * SCALE)
    prev_error,      \* self.prev_error
    auto_control,    \* self.auto_control
    force,           \* local `force` of the last update()   (SCALE units)
    toggle_pressed,  \* pyxel.btnp(KEY_SPACE) as polled by the last update()
    manual_left,     \* pyxel.btn(KEY_LEFT) as last polled
    manual_right,    \* pyxel.btn(KEY_RIGHT) as last polled
    frame_count,     \* number of update() calls that ran to completion
    running,         \* FALSE once pyxel.quit() was called
    free_from,       \* input schedule: first frame of the free-input window
    angle,           \* argument of a direct normalize_angle call
    result,          \* its return value
    pc               \* "run": application; "arg"/"ret": direct call

vars == << theta, omega, cart_x, cart_v, integral_error, prev_error,
           auto_control, force, toggle_pressed, manual_left, manual_right,
           frame_count, running, free_from, angle, result, pc >>

----------------------------------------------------------------------------
(* Bounds of the model *)

MaxTicks == 76      \* frames of one run of the application
FreeTicks == 4      \* frames in which every input combination is tried
LateStart == 12     \* a later first frame of the free-input window
GridTicks == 1      \* frames run from each state of the grid
StabTicks == 600    \* frames of the stability scenario
NormTurns == 3      \* direct normalize_angle calls: |angle| <= NormTurns turns

----------------------------------------------------------------------------
(* Number representation *)

SCALE == 12000
PI == 37699                 \* math.pi
TWO_PI == 75398             \* 2 * math.pi
HALF_PI == 18850            \* math.pi / 2

Abs(x) == IF x >= 0 THEN x ELSE -x

\* n / d rounded to the nearest integer (d > 0), halves away from zero
Rnd(n, d) == IF n >= 0 THEN (2 * n + d) \div (2 * d)
                       ELSE -((2 * (-n) + d) \div (2 * d))

\* a * b of two fixed-point numbers, without leaving 32 bits
MulFix(a, b) == (a \div SCALE) * b + Rnd((a % SCALE) * b, SCALE)

\* sine of x in [0, pi/2]: x(1 - x^2/6 (1 - x^2/20 (1 - x^2/42 (1 - x^2/72))))
SinPoly(x) ==
    LET x2 == Rnd(x * x, SCALE)
        t4 == SCALE - Rnd(x2, 72)
        t3 == SCALE - Rnd(Rnd(x2 * t4, SCALE), 42)
        t2 == SCALE - Rnd(Rnd(x2 * t3, SCALE), 20)
        t1 == SCALE - Rnd(Rnd(x2 * t2, SCALE), 6)
    IN  Rnd(x * t1, SCALE)

\* math.sin
sin(a) ==
    LET r == ((a + PI) % TWO_PI) - PI
        h == IF Abs(r) > HALF_PI THEN PI - Abs(r) ELSE Abs(r)
    IN  IF r >= 0 THEN SinPoly(h) ELSE -SinPoly(h)

\* math.cos
cos(a) == sin(a + HALF_PI)

----------------------------------------------------------------------------
(* Configuration set by __init__ *)

g100 == 981          \* self.g = 9.81, in hundredths
m == 1               \* self.m = 1.0
l == 30              \* self.l = 30.0
dtInv == 60          \* self.dt = 1/60
Kp == 1000           \* self.Kp = 1000.0
KiInv == 10          \* self.Ki = 0.1
Kd == 300            \* self.Kd = 300.0
F_MAX == 100 * SCALE \* self.force = 100.0
dampingInv == 10     \* damping = 0.1
I_MAX == 5 * SCALE   \* the 5.0 of calculate_control
X_MIN == 20 * SCALE  \* the 20 of update
X_MAX == 140 * SCALE \* the 140 of update
TARGET == -HALF_PI   \* -math.pi/2
THETA0 == HALF_PI + SCALE \div 10   \* math.pi/2 + 0.1
CART_X0 == 80 * SCALE               \* self.cart_x = 80

Max(a, b) == IF a >= b THEN a ELSE b
Min(a, b) == IF a <= b THEN a ELSE b

----------------------------------------------------------------------------
(* normalize_angle *)

RECURSIVE wrap_down(_)
\* while angle > math.pi: angle -= 2 * math.pi
wrap_down(a) == IF a > PI THEN wrap_down(a - TWO_PI) ELSE a

RECURSIVE wrap_up(_)
\* while angle < -math.pi: angle += 2 * math.pi
wrap_up(a) == IF a < -PI THEN wrap_up(a + TWO_PI) ELSE a

normalize_angle_one_loop(a) == wrap_down(a)

normalize_angle(a) == wrap_up(wrap_down(a))

----------------------------------------------------------------------------
(* calculate_control *)

\* error = self.normalize_angle(self.theta - (-math.pi/2))
error_of(th) == normalize_angle(th - TARGET)

integral_unclamped(ie, err) == ie + Rnd(err, dtInv)

\* max(-5.0, min(5.0, self.integral_error + error * self.dt))
integral_update(ie, err) == Max(-I_MAX, Min(I_MAX, ie + Rnd(err, dtInv)))

\* Kp * error + Ki * integral_error + Kd * derivative
raw_control(err, ie, om) == Kp * err + Rnd(ie, KiInv) + Kd * om

limit_control_low_only(c) == Max(-F_MAX, c)

\* max(-self.force, min(self.force, control))
limit_control(c) == Max(-F_MAX, Min(F_MAX, c))

\* the value calculate_control returns; ie is the integral it has just stored
calculate_control(th, om, ie) == limit_control(raw_control(error_of(th), ie, om))

----------------------------------------------------------------------------
(* update *)

mode_switch_no_reset(tog, ie) == ie

\* if btnp(KEY_SPACE): ...; self.integral_error = 0
mode_switch_integral(tog, ie) == IF tog THEN 0 ELSE ie

manual_force_left_wins(left, right) ==
    IF left THEN -F_MAX ELSE IF right THEN F_MAX ELSE 0

\* force = 0; if btn(LEFT): force = -self.force; if btn(RIGHT): force = self.force
manual_force(left, right) ==
    IF right THEN F_MAX ELSE IF left THEN -F_MAX ELSE 0

\* alpha = (-g * cos_theta + force * sin_theta / m) / l
alpha_of(th, f) ==
    Rnd(-Rnd(g100 * cos(th), 100) + Rnd(MulFix(f, sin(th)), m), l)

\* self.omega += alpha * dt; self.omega *= (1.0 - damping * dt)
omega_step(om, al) ==
    Rnd((om + Rnd(al, dtInv)) * (dampingInv * dtInv - 1), dampingInv * dtInv)

\* self.theta += self.omega * self.dt
theta_step(th, om) == th + Rnd(om, dtInv)

cart_v_accumulated(v, f) == v + Rnd(Rnd(f, dtInv), m)

\* self.cart_v = force * self.dt / self.m
cart_v_of(v, f) == Rnd(Rnd(f, dtInv), m)

cart_x_unclamped(x, v) == x + v

\* self.cart_x += self.cart_v; self.cart_x = max(20, min(140, self.cart_x))
cart_x_step(x, v) == Max(X_MIN, Min(X_MAX, x + v))

\* update with the mode switch handled after the force is resolved
update_toggle_after_force(quit, tog, left, right) ==
    /\ running
    /\ pc = "run"
    /\ IF quit
       THEN /\ running' = FALSE
            /\ UNCHANGED << theta, omega, cart_x, cart_v, integral_error,
                            auto_control, force, toggle_pressed,
                            manual_left, manual_right, frame_count >>
       ELSE LET ie2   == IF auto_control
                            THEN integral_update(integral_error, error_of(theta))
                            ELSE integral_error
                f     == IF auto_control
                            THEN calculate_control(theta, omega, ie2)
                            ELSE manual_force(left, right)
                om1   == omega_step(omega, alpha_of(theta, f))
                v1    == cart_v_of(cart_v, f)
            IN  /\ toggle_pressed' = tog
                /\ auto_control' = (IF tog THEN ~auto_control ELSE auto_control)
                /\ integral_error' = mode_switch_integral(tog, ie2)
                /\ IF auto_control
                      THEN UNCHANGED << manual_left, manual_right >>
                      ELSE manual_left' = left /\ manual_right' = right
                /\ force' = f
                /\ omega' = om1
                /\ theta' = theta_step(theta, om1)
                /\ cart_v' = v1
                /\ cart_x' = cart_x_step(cart_x, v1)
                /\ frame_count' = frame_count + 1
                /\ running' = TRUE
    /\ UNCHANGED << prev_error, free_from, angle, result, pc >>

\* One call of update() with the key states the frame polls.
update(quit, tog, left, right) ==
    /\ running
    /\ pc = "run"
    /\ IF quit
       THEN \* pyxel.quit() ends the process inside update
            /\ running' = FALSE
            /\ UNCHANGED << theta, omega, cart_x, cart_v, integral_error,
                            auto_control, force, toggle_pressed,
                            manual_left, manual_right, frame_count >>
       ELSE LET auto1 == IF tog THEN ~auto_control ELSE auto_control
                ie1   == mode_switch_integral(tog, integral_error)
                ie2   == IF auto1
                            THEN integral_update(ie1, error_of(theta))
                            ELSE ie1
                f     == IF auto1
                            THEN calculate_control(theta, omega, ie2)
                            ELSE manual_force(left, right)
                om1   == omega_step(omega, alpha_of(theta, f))
                v1    == cart_v_of(cart_v, f)
            IN  /\ toggle_pressed' = tog
                /\ auto_control' = auto1
                /\ integral_error' = ie2
                /\ IF auto1
                      THEN UNCHANGED << manual_left, manual_right >>
                      ELSE manual_left' = left /\ manual_right' = right
                /\ force' = f
                /\ omega' = om1
                /\ theta' = theta_step(theta, om1)
                /\ cart_v' = v1
                /\ cart_x' = cart_x_step(cart_x, v1)
                /\ frame_count' = frame_count + 1
                /\ running' = TRUE
    /\ UNCHANGED << prev_error, free_from, angle, result, pc >>

----------------------------------------------------------------------------
(* The application: __init__, then pyxel.run calls update every frame *)

\* state after __init__
Constructed ==
    /\ theta = THETA0
    /\ omega = 0
    /\ cart_x = CART_X0
    /\ cart_v = 0
    /\ integral_error = 0
    /\ prev_error = 0
    /\ auto_control = TRUE
    /\ force = 0
    /\ toggle_pressed = FALSE
    /\ manual_left = FALSE
    /\ manual_right = FALSE
    /\ frame_count = 0
    /\ running = TRUE
    /\ angle = 0
    /\ result = 0
    /\ pc = "run"

Init ==
    /\ Constructed
    /\ free_from \in {0, LateStart}

\* The keyboard: untouched before frame free_from, any combination of
\* SPACE, LEFT and RIGHT in the FreeTicks frames from free_from on, the
\* arrow keys held as they are after that.  Q may be pressed in any frame.
InFreeWindow == frame_count >= free_from /\ frame_count < free_from + FreeTicks

KeysAllowed(tog, left, right) ==
    \/ InFreeWindow
    \/ ~tog /\ left = manual_left /\ right = manual_right

Next ==
    \E quit, tog, left, right \in BOOLEAN :
        /\ frame_count < MaxTicks
        /\ KeysAllowed(tog, left, right)
        /\ update(quit, tog, left, right)

Spec == Init /\ [][Next]_vars

----------------------------------------------------------------------------
(* The stability scenario: the constructed application left alone *)

InitStab ==
    /\ Constructed
    /\ free_from = 0

NextStab ==
    /\ frame_count < StabTicks
    /\ update(FALSE, FALSE, FALSE, FALSE)

SpecStab == InitStab /\ [][NextStab]_vars

----------------------------------------------------------------------------
(* update applied to a grid of pendulum and controller states *)

ThetaGrid ==
    { TARGET - SCALE \div 20, TARGET, TARGET + SCALE \div 20, 0,
      HALF_PI - SCALE \div 10, HALF_PI, THETA0, PI, -PI, 2 * TWO_PI + SCALE \div 40 }

OmegaGrid == { -SCALE, -(SCALE \div 100), 0, SCALE \div 100, SCALE }

IntegralGrid ==
    { -I_MAX, -I_MAX + SCALE \div 100, -SCALE, 0, SCALE,
      I_MAX - SCALE \div 100, I_MAX }

CartGrid == { X_MIN, X_MIN + SCALE \div 2, CART_X0, X_MAX - SCALE \div 2, X_MAX }

InitGrid ==
    /\ theta \in ThetaGrid
    /\ omega \in OmegaGrid
    /\ cart_x \in CartGrid
    /\ cart_v = 0
    /\ auto_control \in BOOLEAN
    /\ integral_error \in (IF auto_control THEN IntegralGrid ELSE {0})
    /\ prev_error = 0
    /\ force = 0
    /\ toggle_pressed = FALSE
    /\ manual_left = FALSE
    /\ manual_right = FALSE
    /\ frame_count = 0
    /\ running = TRUE
    /\ free_from = 0
    /\ angle = 0
    /\ result = 0
    /\ pc = "run"

NextGrid ==
    \E quit, tog, left, right \in BOOLEAN :
        /\ frame_count < GridTicks
        /\ update(quit, tog, left, right)

SpecGrid == InitGrid /\ [][NextGrid]_vars

----------------------------------------------------------------------------
(* normalize_angle called directly *)

NormOffsets ==
    { -PI, -PI + 1, -SCALE, -HALF_PI, -1, 0, 1, HALF_PI, SCALE, PI - 1, PI }

NormInputs ==
    { k * TWO_PI + d : k \in (-NormTurns)..NormTurns, d \in NormOffsets }

InitNorm ==
    /\ angle \in NormInputs
    /\ result = 0
    /\ pc = "arg"
    /\ theta = THETA0
    /\ omega = 0
    /\ cart_x = CART_X0
    /\ cart_v = 0
    /\ integral_error = 0
    /\ prev_error = 0
    /\ auto_control = TRUE
    /\ force = 0
    /\ toggle_pressed = FALSE
    /\ manual_left = FALSE
    /\ manual_right = FALSE
    /\ frame_count = 0
    /\ running = TRUE
    /\ free_from = 0

call_normalize_angle ==
    /\ pc = "arg"
    /\ result' = normalize_angle(angle)
    /\ pc' = "ret"
    /\ UNCHANGED << theta, omega, cart_x, cart_v, integral_error, prev_error,
                    auto_control, force, toggle_pressed, manual_left,
                    manual_right, frame_count, running, free_from, angle >>

NextNorm == call_normalize_angle

SpecNorm == InitNorm /\ [][NextNorm]_vars

----------------------------------------------------------------------------
(* Properties *)

\* a step in which update() ran to completion
Ticked == frame_count' = frame_count + 1

\* C1: after every update, cart_x lies in [20, 140]; a move past a bound
\* ends exactly on the bound (clamped, not reflected).
CartWithinBounds ==
    /\ [](cart_x >= X_MIN /\ cart_x <= X_MAX)
    /\ [][Ticked =>
            /\ (cart_x + cart_v' > X_MAX => cart_x' = X_MAX)
            /\ (cart_x + cart_v' < X_MIN => cart_x' = X_MIN)]_vars

\* RIGHT was held in Manual mode to the last frame: the cart sits on the
\* upper bound and still has a positive velocity.
CartHeldAtUpperBound ==
    /\ ~auto_control
    /\ manual_right
    /\ cart_v > 0
    /\ cart_x = X_MAX
    /\ frame_count = MaxTicks

\* C2: integral_error lies in [-5, 5]; an accumulation that would leave the
\* interval is stored as exactly the bound it crossed.
IntegralWithinBounds ==
    /\ [](integral_error >= -I_MAX /\ integral_error <= I_MAX)
    /\ [][(Ticked /\ auto_control') =>
            LET acc == (IF toggle_pressed' THEN 0 ELSE integral_error)
                       + Rnd(error_of(theta), dtInv)
            IN  /\ (acc > I_MAX => integral_error' = I_MAX)
                /\ (acc < -I_MAX => integral_error' = -I_MAX)
                /\ (acc >= -I_MAX /\ acc <= I_MAX => integral_error' = acc)]_vars

\* An Automatic frame without toggle ended with the integral on the upper
\* bound while the error is large and positive: the grid holds no integral
\* from which that sum stays inside the interval.
IntegralClampedAtUpperBound ==
    /\ auto_control
    /\ ~toggle_pressed
    /\ frame_count >= 1
    /\ integral_error = I_MAX
    /\ error_of(theta) > SCALE

\* C3: the force of every frame is in [-F_MAX, F_MAX]; in Automatic mode it
\* is exactly +F_MAX or -F_MAX when Kp*error + Ki*integral + Kd*omega is
\* outside that interval, and that raw value otherwise.
ControlWithinForceLimit ==
    /\ [](force >= -F_MAX /\ force <= F_MAX)
    /\ [][(Ticked /\ auto_control') =>
            LET raw == Kp * error_of(theta) + Rnd(integral_error', KiInv)
                       + Kd * omega
            IN  /\ (raw > F_MAX => force' = F_MAX)
                /\ (raw < -F_MAX => force' = -F_MAX)
                /\ (raw >= -F_MAX /\ raw <= F_MAX => force' = raw)]_vars

\* An Automatic frame produced +F_MAX with an error above one radian, whose
\* proportional term alone is ten times the limit.
ControlSaturatedHigh ==
    /\ auto_control
    /\ frame_count >= 1
    /\ force = F_MAX
    /\ error_of(theta) > SCALE

\* C4: the mode starts Automatic and flips exactly in the frames that poll a
\* toggle; the flip zeroes integral_error before the force of that frame is
\* resolved, so the force comes from the new mode and a controller call in
\* that frame accumulates from 0.
ModeChangesOnlyOnToggle ==
    /\ [](frame_count = 0 => auto_control)
    /\ [][/\ (~Ticked => auto_control' = auto_control)
          /\ (Ticked =>
                /\ auto_control' = (IF toggle_pressed' THEN ~auto_control
                                                       ELSE auto_control)
                /\ (toggle_pressed' /\ ~auto_control' =>
                      /\ integral_error' = 0
                      /\ force' = manual_force(manual_left', manual_right'))
                /\ (toggle_pressed' /\ auto_control' =>
                      /\ integral_error' = integral_update(0, error_of(theta))
                      /\ force' = calculate_control(theta, omega,
                                                    integral_error')))]_vars

\* A toggle into Manual after at least LateStart Automatic frames, whose
\* accumulated integral was not zero.
ToggledToManualLate ==
    /\ free_from = LateStart
    /\ frame_count = LateStart + 1
    /\ toggle_pressed
    /\ ~auto_control
    /\ integral_error = 0

\* C6: in Manual mode the force of a frame is +F_MAX when RIGHT is held
\* (also with LEFT), -F_MAX when only LEFT is held, 0 when neither is.
ManualForceFromKeys ==
    ~auto_control =>
        force = (IF manual_right THEN F_MAX
                 ELSE IF manual_left THEN -F_MAX ELSE 0)

\* A Manual frame with both arrow keys held.
ManualBothKeysHeld ==
    /\ ~auto_control
    /\ frame_count >= 1
    /\ manual_left
    /\ manual_right
    /\ force = F_MAX

\* C8: in Manual mode with RIGHT held and no toggle, every frame sets
\* cart_v to F_MAX*dt/m (not accumulated), cart_x grows by it while below
\* 140, capped at 140, and stays at 140 once there; a run in which RIGHT
\* is held from the end of the free-input window on has the cart at 140 by
\* its last frame.
ManualRightStep ==
    Ticked /\ ~auto_control /\ ~auto_control' /\ manual_right'

ManualRightDrivesCartToBound ==
    /\ [][ManualRightStep =>
            /\ cart_v' = Rnd(Rnd(F_MAX, dtInv), m)
            /\ cart_v' > 0
            /\ cart_x' = Min(X_MAX, cart_x + cart_v')
            /\ (cart_x < X_MAX => cart_x' > cart_x)
            /\ (cart_x = X_MAX => cart_x' = X_MAX)]_vars
    /\ []((~auto_control /\ manual_right /\ frame_count = MaxTicks)
            => cart_x = X_MAX)

\* RIGHT is held in Manual mode after the free-input window, the cart is on
\* its way and the application still runs.
ManualRightUnderWay ==
    /\ ~auto_control
    /\ manual_right
    /\ ~toggle_pressed
    /\ running
    /\ frame_count > free_from + FreeTicks
    /\ cart_x > CART_X0
    /\ cart_x < X_MAX

\* C9: after the 600 frames of the stability scenario the normalized angle
\* error is below 0.3.
StableAfterScenario ==
    frame_count = StabTicks =>
        Abs(normalize_angle(theta - TARGET)) < (3 * SCALE) \div 10

\* C10: whenever the mode is Manual, integral_error is 0; a Manual frame
\* leaves integral_error and prev_error as they are.
ManualIntegralZero ==
    /\ [](~auto_control => integral_error = 0)
    /\ [][(Ticked /\ ~auto_control /\ ~auto_control') =>
            /\ integral_error' = integral_error
            /\ prev_error' = prev_error]_vars

\* A Manual frame without toggle, in a run that entered Manual after at
\* least LateStart Automatic frames.
ManualFrameAfterLateToggle ==
    /\ free_from = LateStart
    /\ frame_count > LateStart + 1
    /\ ~auto_control
    /\ ~toggle_pressed
    /\ integral_error = 0

\* C5 as stated: normalize_angle returns a value in (-pi, pi] that differs
\* from its argument by a multiple of 2 pi.
NormalizeHalfOpen ==
    pc = "ret" =>
        /\ result > -PI
        /\ result <= PI
        /\ (result - angle) % TWO_PI = 0

\* C5 amended: normalize_angle returns a value in the closed interval
\* [-pi, pi] that differs from its argument by a multiple of 2 pi; the
\* argument -pi is returned as -pi.
NormalizeClosed ==
    pc = "ret" =>
        /\ result >= -PI
        /\ result <= PI
        /\ (result - angle) % TWO_PI = 0
        /\ (angle = -PI => result = -PI)

\* normalize_angle(-pi) has returned.
NormalizeOfMinusPi ==
    /\ pc = "ret"
    /\ angle = -PI
    /\ result = -PI

====
